---- MODULE Spec2Model ----
(***************************************************************************)
(* Model of custom_components/zoom/binary_sensor.py: the Zoom presence     *)
(* binary sensor (ZoomAuthenticatedUserBinarySensor on top of              *)
(* ZoomBaseBinarySensor).  One entity instance, its bootstrap              *)
(* (async_added_to_hass), the 30 s poll callback (_async_update), the      *)
(* webhook event handler (async_event_received), the option-update and     *)
(* coordinator listeners and the removal of the entity.                    *)
(*                                                                         *)
(* Python values are kept apart: the booleans are the strings "True" and   *)
(* "False", None is the string "None", and a Python str is itself.  No     *)
(* Python str of the model is one of those three words.                    *)
(***************************************************************************)
EXTENDS Integers, Sequences, FiniteSets, TLC

---------------------------------------------------------------------------
(* Bounds of the model *)

\* polls started over the life of the entity
MaxPolls == 3
\* poll callbacks awaiting their fetch at the same time
MaxInFlight == 1

---------------------------------------------------------------------------
(* Python values *)

None == "None"
PyTrue == "True"
PyFalse == "False"

\* bool(v) of a Python value
Truthy(v) == v \notin {None, PyFalse, ""}

\* a and b : the first operand when it is falsy, else the second
PyAnd(a, b) == IF Truthy(a) THEN b ELSE a

\* a or b : the first operand when it is truthy, else the second
PyOr(a, b) == IF Truthy(a) THEN a ELSE b

\* x in C
PyIn(x, C) == IF x \in C THEN PyTrue ELSE PyFalse

\* str.lower() on the strings of the model
Lower(s) == CASE s = "ABC" -> "abc"
              [] s = "Xyz" -> "xyz"
              [] OTHER -> s

---------------------------------------------------------------------------
(* The inputs *)

\* presence statuses the provider reports: one of the default connected
\* statuses and one that is not
Statuses == {"In Meeting", "Away"}

\* values of the connected_statuses option
OptionChoices == {{"Available", "In Meeting"}, {"Away"}}

\* config_entry.entry_id of this entity
EntryId == "entry1"

\* config_entry.data.get(CONF_ID): an explicit id or None
ConfIds == {None, "abc"}

\* a fetched profile: a non-empty dict; None is the record NoProfile
NoProfile == [k |-> "None"]
Profile(i, s) == [k |-> "dict", id |-> i, presence_status |-> s]
Profiles == {Profile("ABC", s) : s \in Statuses}

\* State.state of the persisted state, None when nothing was persisted
PersistedStates == {None, "off"}

\* constants of const.py
ATTR_EVENT == "event"
CONNECTIVITY_EVENT == "user.presence_status_updated"
CONNECTIVITY_ID == <<"payload", "object", "id">>
CONNECTIVITY_STATUS == <<"payload", "object", "presence_status">>

\* DataUpdateCoordinator.data: None until the first refresh, then a profile
CoordProfiles == {Profile("abc", "Away")}

---------------------------------------------------------------------------
(* Event payloads: nested dicts whose leaves are strings or numbers *)

Str(s) == [k |-> "str", s |-> s]
Num == [k |-> "int"]
Dict(f) == [k |-> "dict", d |-> f]
EmptyDict == Dict(<<>>)

\* dict.get(key, default)
DictGet(data, key, default) ==
    IF key \in DOMAIN data.d THEN data.d[key] ELSE default

\* raised by a method call on a value that has no such method
AttributeError == "AttributeError"

RECURSIVE get_data_from_path(_, _)
get_data_from_path(data, path) ==
    IF path = <<>>
    THEN IF data.k = "str" THEN data.s ELSE None
    ELSE IF data.k # "dict"
         THEN AttributeError
         ELSE get_data_from_path(DictGet(data, Head(path), EmptyDict), Tail(path))

\* shapes of the status leaf an event may carry
Missing == "<missing>"
NonStr == "<number>"
EventStatusLeaves == Statuses \cup {Missing, NonStr}

Leaf(v) == IF v = NonStr THEN Num ELSE Str(v)

EventObject(i, s) ==
    Dict([key \in {x \in {"id"} : i # Missing}
                  \cup {x \in {"presence_status"} : s # Missing}
            |-> IF key = "id" THEN Leaf(i) ELSE Leaf(s)])

\* event.data of an event of the HA_ZOOM_EVENT feed
EventData(e, t, i, s) ==
    Dict(("ha_config_entry_id" :> Str(e)) @@ (ATTR_EVENT :> Str(t))
         @@ ("payload" :> Dict("object" :> EventObject(i, s))))

\* an event whose data has no payload at all
BareEventData(e, t) ==
    Dict(("ha_config_entry_id" :> Str(e)) @@ (ATTR_EVENT :> Str(t)))

\* what an event is made of: its entry, its type, whether it has a payload,
\* and the identity and status leaves of the payload
Shape(e, t, p, i, s) == [entry |-> e, type |-> t, payload |-> p, id |-> i, status |-> s]

MakeEvent(sh) ==
    IF sh.payload THEN EventData(sh.entry, sh.type, sh.id, sh.status)
    ELSE BareEventData(sh.entry, sh.type)

\* events addressed to the user of the entity, one for each shape of status
OwnEvents ==
    {Shape(EntryId, CONNECTIVITY_EVENT, TRUE, "ABC", s) : s \in EventStatusLeaves}

\* events of another entry, of another type, of another user, without identity
\* and without payload
OtherEvents ==
    {Shape("entry2", CONNECTIVITY_EVENT, TRUE, "ABC", "Away"),
     Shape(EntryId, "meeting.started", TRUE, "ABC", "Away"),
     Shape(EntryId, CONNECTIVITY_EVENT, TRUE, "xyz", "Away"),
     Shape(EntryId, CONNECTIVITY_EVENT, TRUE, Missing, "Away"),
     Shape(EntryId, CONNECTIVITY_EVENT, FALSE, Missing, Missing)}

Events == OwnEvents \cup OtherEvents

---------------------------------------------------------------------------
(* State *)

VARIABLES
    confId,      \* config_entry.data.get(CONF_ID)
    coordData,   \* self._coordinator.data
    options,     \* config_entry.options[CONF_CONNECTIVITY_ON_STATUSES]
    persisted,   \* what async_get_last_state() returns (its .state, or None)
    profile,     \* self._profile
    zes,         \* self._zoom_event_state
    is_on,       \* self._is_on
    available,   \* self._attr_available
    bootPc,      \* position of async_added_to_hass
    bootPath,    \* how async_added_to_hass got to its end
    inflight,    \* _async_update callbacks awaiting their fetch
    removed,     \* the async_on_remove callbacks have run
    polls,       \* fetches issued by _async_update so far
    warnings,    \* "Unable to reach Zoom" warnings logged
    recoveries,  \* "We can reach Zoom again" logs
    failNotes,   \* async_write_ha_state calls of failed polls
    lastPollOk,  \* outcome of the most recently completed poll fetch
    failEdges,   \* completed poll fetches that failed after a success
    recEdges,    \* completed poll fetches that succeeded after a failure
    last         \* what the last step was and what it emitted

env == <<confId, coordData, options, persisted>>
ent == <<profile, zes, is_on, available>>
ctl == <<bootPc, bootPath, inflight, removed, polls>>
hist == <<warnings, recoveries, failNotes, lastPollOk, failEdges, recEdges>>
vars == <<env, ent, ctl, hist, last>>

\* the record of a step: the handler, the state-change notifications it sent
\* (async_write_ha_state), whether it called the fetch capability, whether it
\* raised, what it logged, the argument of its _set_state call if any, and the
\* event it handled if any
StepOf(op, notes, fetch, raised, log, set, arg, ev) ==
    [op |-> op, notes |-> notes, fetch |-> fetch, raised |-> raised,
     log |-> log, set |-> set, arg |-> arg, ev |-> ev]

NoEvent == Shape("", "", FALSE, Missing, Missing)

Step(op, notes, fetch, raised, log, set, arg) ==
    StepOf(op, notes, fetch, raised, log, set, arg, NoEvent)

---------------------------------------------------------------------------
(* Properties of the entity *)

\* ZoomAuthenticatedUserBinarySensor.profile:
\*   self._profile or self._coordinator.data or {}
ProfileProp ==
    IF profile.k = "dict" THEN profile
    ELSE IF coordData.k = "dict" THEN coordData
    ELSE [k |-> "empty"]

\* ZoomBaseBinarySensor.id:
\*   self._config_entry.data.get(CONF_ID) or self.profile.get("id")
Id == PyOr(confId, IF ProfileProp.k = "dict" THEN ProfileProp.id ELSE None)

\* ZoomAuthenticatedUserBinarySensor.assumed_state
assumed_state == ~available

\* the option-update, coordinator and timer registrations of
\* ZoomBaseBinarySensor.async_added_to_hass are in place
Registered == bootPc # "init" /\ ~removed

\* the HA_ZOOM_EVENT subscription of
\* ZoomAuthenticatedUserBinarySensor.async_added_to_hass is in place
Listening == bootPc = "done" /\ ~removed

---------------------------------------------------------------------------
(* _set_state *)

\* faulty variant: "or" in the place of "and"
MappedIsOnOr(s, C) == PyOr(s, PyIn(s, C))

\* the value _set_state gives self._is_on
MappedIsOn(s, C) == PyAnd(s, PyIn(s, C))

set_state(s) ==
    /\ zes' = s
    /\ is_on' = MappedIsOn(s, options)

---------------------------------------------------------------------------
(* Initial state: after __init__, before async_added_to_hass *)

Init ==
    /\ confId \in ConfIds
    /\ coordData \in {NoProfile} \cup CoordProfiles
    /\ options \in OptionChoices
    /\ persisted \in PersistedStates
    /\ profile = NoProfile
    /\ zes = None
    /\ is_on = PyFalse
    /\ available = TRUE
    /\ bootPc = "init"
    /\ bootPath = "none"
    /\ inflight = 0
    /\ removed = FALSE
    /\ polls = 0
    /\ warnings = 0
    /\ recoveries = 0
    /\ failNotes = 0
    /\ lastPollOk = TRUE
    /\ failEdges = 0
    /\ recEdges = 0
    /\ last = Step("init", 0, FALSE, FALSE, "", FALSE, None)

---------------------------------------------------------------------------
(* async_added_to_hass *)

\* faulty variant: the fetch is issued without the test of self.id
AddedToHassAlwaysFetch ==
    /\ bootPc = "init"
    /\ bootPc' = "fetching"
    /\ bootPath' = bootPath
    /\ last' = Step("added", 0, TRUE, FALSE, "", FALSE, None)
    /\ UNCHANGED <<env, ent, inflight, removed, polls, hist>>

\* lines 132-162 and 181-183: the registrations, then the test of self.id;
\* the fetch is issued, or the restore is begun
AddedToHass ==
    /\ bootPc = "init"
    /\ IF Truthy(Id)
       THEN /\ bootPc' = "fetching"
            /\ bootPath' = bootPath
            /\ last' = Step("added", 0, TRUE, FALSE, "", FALSE, None)
       ELSE /\ bootPc' = "restoring"
            /\ bootPath' = "unresolved"
            /\ last' = Step("added", 0, FALSE, FALSE, "debug", FALSE, None)
    /\ UNCHANGED <<env, ent, inflight, removed, polls, hist>>

\* lines 164-168: the awaited fetch returns a profile
BootFetchOk(p) ==
    /\ bootPc = "fetching"
    /\ profile' = p
    /\ set_state(p.presence_status)
    /\ bootPc' = "done"
    /\ bootPath' = "fetched"
    /\ last' = Step("boot_ok", 1, FALSE, FALSE, "debug", TRUE, p.presence_status)
    /\ UNCHANGED <<env, available, inflight, removed, polls, hist>>

\* faulty variant: only HTTPUnauthorized is caught, any other error leaves
\* async_added_to_hass
BootFetchFailAuthOnly(kind) ==
    /\ bootPc = "fetching"
    /\ bootPc' = IF kind = "auth" THEN "restoring" ELSE "done"
    /\ bootPath' = kind
    /\ last' = Step("boot_fail", 0, FALSE, kind # "auth",
                    IF kind = "auth" THEN "debug" ELSE "", FALSE, None)
    /\ UNCHANGED <<env, ent, inflight, removed, polls, hist>>

\* faulty variant: a failed bootstrap fetch marks the entity unavailable
BootFetchFailMarksUnavailable(kind) ==
    /\ bootPc = "fetching"
    /\ bootPc' = "restoring"
    /\ bootPath' = kind
    /\ available' = FALSE
    /\ last' = Step("boot_fail", 0, FALSE, FALSE,
                    IF kind = "auth" THEN "debug" ELSE "warning", FALSE, None)
    /\ UNCHANGED <<env, profile, zes, is_on, inflight, removed, polls, hist>>

\* lines 169-180: the awaited fetch raises HTTPUnauthorized ("auth") or
\* anything else ("other"); _restore_state is begun
BootFetchFail(kind) ==
    /\ bootPc = "fetching"
    /\ bootPc' = "restoring"
    /\ bootPath' = kind
    /\ last' = Step("boot_fail", 0, FALSE, FALSE,
                    IF kind = "auth" THEN "debug" ELSE "warning", FALSE, None)
    /\ UNCHANGED <<env, ent, inflight, removed, polls, hist>>

\* faulty variant: the restore also takes the persisted state as the status
restore_state_sets_status ==
    /\ bootPc = "restoring"
    /\ is_on' = IF persisted # None THEN persisted ELSE is_on
    /\ zes' = IF persisted # None THEN persisted ELSE zes
    /\ bootPc' = "done"
    /\ last' = Step("restore", 0, FALSE, FALSE, "", FALSE, None)
    /\ UNCHANGED <<env, profile, available, bootPath, inflight, removed,
                   polls, hist>>

\* lines 115-119: async_get_last_state() returns
restore_state ==
    /\ bootPc = "restoring"
    /\ is_on' = IF persisted # None THEN persisted ELSE is_on
    /\ bootPc' = "done"
    /\ last' = Step("restore", 0, FALSE, FALSE, "", FALSE, None)
    /\ UNCHANGED <<env, profile, zes, available, bootPath, inflight, removed,
                   polls, hist>>

---------------------------------------------------------------------------
(* _async_update: the callback of the 30 s timer *)

\* faulty variant: the fetch is issued without the test of self.id
PollStartAnyId ==
    /\ Registered
    /\ polls < MaxPolls
    /\ inflight < MaxInFlight
    /\ inflight' = inflight + 1
    /\ polls' = polls + 1
    /\ last' = Step("poll_start", 0, TRUE, FALSE, "", FALSE, None)
    /\ UNCHANGED <<env, ent, bootPc, bootPath, removed, hist>>

\* lines 90-94: the timer fires, self.id is truthy, the fetch is issued
PollStart ==
    /\ Registered
    /\ Truthy(Id)
    /\ polls < MaxPolls
    /\ inflight < MaxInFlight
    /\ inflight' = inflight + 1
    /\ polls' = polls + 1
    /\ last' = Step("poll_start", 0, TRUE, FALSE, "", FALSE, None)
    /\ UNCHANGED <<env, ent, bootPc, bootPath, removed, hist>>

\* line 92: the timer fires and self.id is falsy: nothing is done
PollSkip ==
    /\ Registered
    /\ ~Truthy(Id)
    /\ last' = Step("poll_skip", 0, FALSE, FALSE, "", FALSE, None)
    /\ UNCHANGED <<env, ent, ctl, hist>>

\* faulty variant: the recovery does not apply the fetched status
PollFetchOkNoCatchUp(p) ==
    /\ inflight > 0
    /\ inflight' = inflight - 1
    /\ profile' = p
    /\ IF ~available
       THEN /\ recoveries' = recoveries + 1
            /\ UNCHANGED <<zes, is_on>>
            /\ available' = TRUE
            /\ last' = Step("poll_ok", 1, FALSE, FALSE, "info", FALSE, None)
       ELSE /\ UNCHANGED <<recoveries, zes, is_on, available>>
            /\ last' = Step("poll_ok", 0, FALSE, FALSE, "", FALSE, None)
    /\ lastPollOk' = TRUE
    /\ recEdges' = IF lastPollOk THEN recEdges ELSE recEdges + 1
    /\ UNCHANGED <<env, bootPc, bootPath, removed, polls, warnings, failNotes,
                   failEdges>>

\* faulty variant: every successful poll applies the fetched status
PollFetchOkResync(p) ==
    /\ inflight > 0
    /\ inflight' = inflight - 1
    /\ profile' = p
    /\ set_state(p.presence_status)
    /\ IF ~available
       THEN /\ recoveries' = recoveries + 1
            /\ available' = TRUE
            /\ last' = Step("poll_ok", 1, FALSE, FALSE, "info", TRUE,
                            p.presence_status)
       ELSE /\ UNCHANGED <<recoveries, available>>
            /\ last' = Step("poll_ok", 1, FALSE, FALSE, "", TRUE,
                            p.presence_status)
    /\ lastPollOk' = TRUE
    /\ recEdges' = IF lastPollOk THEN recEdges ELSE recEdges + 1
    /\ UNCHANGED <<env, bootPc, bootPath, removed, polls, warnings, failNotes,
                   failEdges>>

\* lines 94-104: the awaited fetch returns a profile
PollFetchOk(p) ==
    /\ inflight > 0
    /\ inflight' = inflight - 1
    /\ profile' = p
    /\ IF ~available
       THEN /\ recoveries' = recoveries + 1
            /\ set_state(p.presence_status)
            /\ available' = TRUE
            /\ last' = Step("poll_ok", 1, FALSE, FALSE, "info", TRUE,
                            p.presence_status)
       ELSE /\ UNCHANGED <<recoveries, zes, is_on, available>>
            /\ last' = Step("poll_ok", 0, FALSE, FALSE, "", FALSE, None)
    /\ lastPollOk' = TRUE
    /\ recEdges' = IF lastPollOk THEN recEdges ELSE recEdges + 1
    /\ UNCHANGED <<env, bootPc, bootPath, removed, polls, warnings, failNotes,
                   failEdges>>

\* faulty variant: a failed poll forgets the status
PollFetchFailClearsStatus ==
    /\ inflight > 0
    /\ inflight' = inflight - 1
    /\ set_state(None)
    /\ IF available
       THEN /\ warnings' = warnings + 1
            /\ available' = FALSE
            /\ failNotes' = failNotes + 1
            /\ last' = Step("poll_fail", 1, FALSE, FALSE, "warning", TRUE, None)
       ELSE /\ UNCHANGED <<warnings, available, failNotes>>
            /\ last' = Step("poll_fail", 0, FALSE, FALSE, "", TRUE, None)
    /\ lastPollOk' = FALSE
    /\ failEdges' = IF lastPollOk THEN failEdges + 1 ELSE failEdges
    /\ UNCHANGED <<env, profile, bootPc, bootPath, removed, polls,
                   recoveries, recEdges>>

\* faulty variant: every failed poll warns and notifies
PollFetchFailEveryTime ==
    /\ inflight > 0
    /\ inflight' = inflight - 1
    /\ warnings' = warnings + 1
    /\ available' = FALSE
    /\ failNotes' = failNotes + 1
    /\ last' = Step("poll_fail", 1, FALSE, FALSE, "warning", FALSE, None)
    /\ lastPollOk' = FALSE
    /\ failEdges' = IF lastPollOk THEN failEdges + 1 ELSE failEdges
    /\ UNCHANGED <<env, profile, zes, is_on, bootPc, bootPath, removed, polls,
                   recoveries, recEdges>>

\* lines 105-113: the awaited fetch raises
PollFetchFail ==
    /\ inflight > 0
    /\ inflight' = inflight - 1
    /\ IF available
       THEN /\ warnings' = warnings + 1
            /\ available' = FALSE
            /\ failNotes' = failNotes + 1
            /\ last' = Step("poll_fail", 1, FALSE, FALSE, "warning", FALSE, None)
       ELSE /\ UNCHANGED <<warnings, available, failNotes>>
            /\ last' = Step("poll_fail", 0, FALSE, FALSE, "", FALSE, None)
    /\ lastPollOk' = FALSE
    /\ failEdges' = IF lastPollOk THEN failEdges + 1 ELSE failEdges
    /\ UNCHANGED <<env, profile, zes, is_on, bootPc, bootPath, removed, polls,
                   recoveries, recEdges>>

---------------------------------------------------------------------------
(* async_event_received *)

\* lines 267-268: the first two conditions of the test
EntryMatches(data) == data.d["ha_config_entry_id"] = Str(EntryId)
TypeMatches(data) == data.d[ATTR_EVENT] = Str(CONNECTIVITY_EVENT)

\* line 269: .lower() is called on a value that is not a str
IdRaises(data) ==
    \/ get_data_from_path(data, CONNECTIVITY_ID) \in {None, AttributeError}
    \/ Id = None

\* faulty variant: the identity of the event is compared as it is written
IdMatchesCaseSensitive(data) ==
    get_data_from_path(data, CONNECTIVITY_ID) = Lower(Id)

\* line 269: get_data_from_path(status, CONNECTIVITY_ID).lower() == self.id.lower()
IdMatches(data) ==
    Lower(get_data_from_path(data, CONNECTIVITY_ID)) = Lower(Id)

\* faulty variant: the entry of the event is not compared
EventMatchesAnyEntry(data) ==
    /\ TypeMatches(data)
    /\ ~IdRaises(data)
    /\ IdMatches(data)

\* lines 266-270: the three conditions, left to right
EventMatches(data) ==
    /\ EntryMatches(data)
    /\ TypeMatches(data)
    /\ ~IdRaises(data)
    /\ IdMatches(data)

EventRaises(data) ==
    /\ EntryMatches(data)
    /\ TypeMatches(data)
    /\ IdRaises(data)

\* faulty variant: a matching event marks the entity available
async_event_received_marks_available(sh) ==
    LET data == MakeEvent(sh)
        status == get_data_from_path(data, CONNECTIVITY_STATUS)
    IN  /\ Listening
        /\ IF EventMatches(data)
           THEN /\ set_state(status)
                /\ available' = TRUE
                /\ last' = StepOf("event", 1, FALSE, FALSE, "", TRUE, status, sh)
           ELSE /\ UNCHANGED <<zes, is_on, available>>
                /\ last' = StepOf("event", 0, FALSE, EventRaises(data), "", FALSE,
                                  None, sh)
        /\ UNCHANGED <<env, profile, ctl, hist>>

\* lines 263-272, on the event of shape sh
async_event_received(sh) ==
    LET data == MakeEvent(sh)
        status == get_data_from_path(data, CONNECTIVITY_STATUS)
    IN  /\ Listening
        /\ IF EventMatches(data)
           THEN /\ set_state(status)
                /\ last' = StepOf("event", 1, FALSE, FALSE, "", TRUE, status, sh)
           ELSE /\ UNCHANGED <<zes, is_on>>
                /\ last' = StepOf("event", 0, FALSE, EventRaises(data), "", FALSE,
                                  None, sh)
        /\ UNCHANGED <<env, profile, available, ctl, hist>>

---------------------------------------------------------------------------
(* The listeners and the removal *)

\* lines 121-130: the connected_statuses option is edited; the update
\* listener sends the signal and _async_update_options writes the state
async_update_options(C) ==
    /\ C # options
    /\ options' = C
    /\ last' = Step("options", IF Registered THEN 1 ELSE 0, FALSE, FALSE, "",
                    FALSE, None)
    /\ UNCHANGED <<confId, coordData, persisted, ent, ctl, hist>>

\* lines 150-153: the coordinator refreshes its data and calls
\* async_write_ha_state
CoordinatorRefresh(d) ==
    /\ coordData' = d
    /\ last' = Step("coordinator", IF Registered THEN 1 ELSE 0, FALSE, FALSE,
                    "", FALSE, None)
    /\ UNCHANGED <<confId, options, persisted, ent, ctl, hist>>

\* the entity is removed: the async_on_remove callbacks run
Remove ==
    /\ bootPc = "done"
    /\ ~removed
    /\ removed' = TRUE
    /\ last' = Step("remove", 0, FALSE, FALSE, "", FALSE, None)
    /\ UNCHANGED <<env, ent, bootPc, bootPath, inflight, polls, hist>>

---------------------------------------------------------------------------
(* The specification *)

Next ==
    \/ AddedToHass
    \/ \E p \in Profiles : BootFetchOk(p)
    \/ \E kind \in {"auth", "other"} : BootFetchFail(kind)
    \/ restore_state
    \/ PollStart
    \/ PollSkip
    \/ \E p \in Profiles : PollFetchOk(p)
    \/ PollFetchFail
    \/ \E sh \in Events : async_event_received(sh)
    \/ \E C \in OptionChoices : async_update_options(C)
    \/ \E d \in CoordProfiles : CoordinatorRefresh(d)
    \/ Remove

Spec == Init /\ [][Next]_vars

TypeOK ==
    /\ confId \in ConfIds
    /\ coordData \in {NoProfile} \cup CoordProfiles
    /\ options \in OptionChoices
    /\ persisted \in PersistedStates
    /\ profile \in {NoProfile} \cup Profiles
    /\ zes \in Statuses \cup {None}
    /\ is_on \in {PyTrue, PyFalse, None} \cup PersistedStates
    /\ available \in BOOLEAN
    /\ bootPc \in {"init", "fetching", "restoring", "done"}
    /\ bootPath \in {"none", "unresolved", "auth", "other", "fetched"}
    /\ inflight \in 0..MaxInFlight
    /\ removed \in BOOLEAN
    /\ polls \in 0..MaxPolls

---------------------------------------------------------------------------
(* The entity while its timer keeps firing: the poll callback without the   *)
(* bound on the polls and without the counts of logs and edges, the entity  *)
(* never removed, every fetch eventually returning or raising               *)

\* lines 90-94: the timer fires, self.id is truthy, the fetch is issued
LivePollStart ==
    /\ Registered
    /\ Truthy(Id)
    /\ inflight < MaxInFlight
    /\ inflight' = inflight + 1
    /\ last' = Step("poll_start", 0, TRUE, FALSE, "", FALSE, None)
    /\ UNCHANGED <<env, ent, bootPc, bootPath, removed, polls, hist>>

\* faulty variant: the recovery leaves the entity unavailable
LivePollFetchOkStaysUnavailable(p) ==
    /\ inflight > 0
    /\ inflight' = inflight - 1
    /\ profile' = p
    /\ IF ~available
       THEN /\ set_state(p.presence_status)
            /\ available' = available
            /\ last' = Step("poll_ok", 1, FALSE, FALSE, "info", TRUE,
                            p.presence_status)
       ELSE /\ UNCHANGED <<zes, is_on, available>>
            /\ last' = Step("poll_ok", 0, FALSE, FALSE, "", FALSE, None)
    /\ lastPollOk' = TRUE
    /\ UNCHANGED <<env, bootPc, bootPath, removed, polls, warnings, recoveries,
                   failNotes, failEdges, recEdges>>

\* lines 94-104: the awaited fetch returns a profile
LivePollFetchOk(p) ==
    /\ inflight > 0
    /\ inflight' = inflight - 1
    /\ profile' = p
    /\ IF ~available
       THEN /\ set_state(p.presence_status)
            /\ available' = TRUE
            /\ last' = Step("poll_ok", 1, FALSE, FALSE, "info", TRUE,
                            p.presence_status)
       ELSE /\ UNCHANGED <<zes, is_on, available>>
            /\ last' = Step("poll_ok", 0, FALSE, FALSE, "", FALSE, None)
    /\ lastPollOk' = TRUE
    /\ UNCHANGED <<env, bootPc, bootPath, removed, polls, warnings, recoveries,
                   failNotes, failEdges, recEdges>>

\* lines 105-113: the awaited fetch raises
LivePollFetchFail ==
    /\ inflight > 0
    /\ inflight' = inflight - 1
    /\ IF available
       THEN /\ available' = FALSE
            /\ last' = Step("poll_fail", 1, FALSE, FALSE, "warning", FALSE, None)
       ELSE /\ UNCHANGED available
            /\ last' = Step("poll_fail", 0, FALSE, FALSE, "", FALSE, None)
    /\ lastPollOk' = FALSE
    /\ UNCHANGED <<env, profile, zes, is_on, bootPc, bootPath, removed, polls,
                   warnings, recoveries, failNotes, failEdges, recEdges>>

\* the fetch of a poll callback completes
LivePollFetchDone ==
    \/ \E p \in Profiles : LivePollFetchOk(p)
    \/ LivePollFetchFail

LiveNext ==
    \/ AddedToHass
    \/ \E p \in Profiles : BootFetchOk(p)
    \/ \E kind \in {"auth", "other"} : BootFetchFail(kind)
    \/ restore_state
    \/ LivePollStart
    \/ PollSkip
    \/ \E p \in Profiles : LivePollFetchOk(p)
    \/ LivePollFetchFail
    \/ \E sh \in Events : async_event_received(sh)
    \/ \E C \in OptionChoices : async_update_options(C)
    \/ \E d \in CoordProfiles : CoordinatorRefresh(d)

\* the timer fires every 30 s, and a fetch returns or raises
LiveSpec ==
    /\ Init
    /\ [][LiveNext]_vars
    /\ WF_vars(LivePollStart)
    /\ WF_vars(LivePollFetchDone)

---------------------------------------------------------------------------
(* The claims *)

\* is_on is read for its truth value: None and the empty string count as false

C2_IsOnDerived == Truthy(is_on) <=> (zes # None /\ zes \in options)

\* C3: available goes from false to true only in a successful poll fetch, from
\* true to false only in a failed poll fetch, and no other step changes it.
C3_AvailableOnlyByPoll ==
    [][/\ (~available /\ available') => last'.op = "poll_ok"
       /\ (available /\ ~available') => last'.op = "poll_fail"
       /\ last'.op \notin {"poll_ok", "poll_fail"} => available' = available]_vars

\* C3 witness: a matching push event was applied while the entity was
\* unavailable, after a failed poll made it so.
C3_Witness ==
    /\ last.op = "event"
    /\ last.set
    /\ ~available
    /\ warnings = 1

\* C4: the warnings and the failure notifications are as many as the
\* failure-after-success edges of the poll outcomes, the recovery logs as many
\* as the success-after-failure edges, available is false after a failure, and
\* a failed poll of an unavailable entity changes and emits nothing.
C4_EdgeTriggered ==
    /\ [](/\ warnings = failEdges
          /\ failNotes = failEdges
          /\ recoveries = recEdges
          /\ ~lastPollOk => ~available)
    /\ [][(last'.op = "poll_fail" /\ ~available) =>
            /\ UNCHANGED <<ent, warnings, recoveries, failNotes>>
            /\ last'.notes = 0
            /\ last'.log = ""]_vars

\* C4 witness: three polls, all failed, from an available entity: one warning.
C4_Witness ==
    /\ polls = 3
    /\ inflight = 0
    /\ last.op = "poll_fail"
    /\ profile = NoProfile
    /\ recEdges = 0
    /\ warnings = 1
    /\ ~available

\* C5: a poll fetch that succeeds while available is false ends with available
\* true, zoom_event_state the presence_status of the profile just fetched,
\* is_on recomputed from it, one recovery log and one notification.
C5_RecoveryCatchUp ==
    [][(last'.op = "poll_ok" /\ ~available) =>
            /\ available'
            /\ profile'.k = "dict"
            /\ zes' = profile'.presence_status
            /\ Truthy(is_on') <=> (zes' # None /\ zes' \in options')
            /\ recoveries' = recoveries + 1
            /\ last'.log = "info"
            /\ last'.notes = 1]_vars

\* C5 witness: a poll has just recovered the entity and changed its status.
C5_Witness ==
    /\ last.op = "poll_ok"
    /\ last.notes = 1
    /\ recoveries = 1
    /\ available
    /\ zes = "Away"
    /\ profile = Profile("ABC", "Away")
    /\ bootPath = "fetched"

\* C6: a poll fetch that succeeds while available is true leaves
\* zoom_event_state, is_on and available as they were and sends no
\* notification, whatever presence_status it fetched.
C6_SteadyPollKeepsState ==
    [][(last'.op = "poll_ok" /\ available) =>
            /\ UNCHANGED <<zes, is_on, available>>
            /\ recoveries' = recoveries
            /\ last'.notes = 0]_vars

\* C6 witness: a steady poll stored a profile whose presence_status is not the
\* status the entity shows.
C6_Witness ==
    /\ last.op = "poll_ok"
    /\ last.notes = 0
    /\ zes \in Statuses
    /\ profile.k = "dict"
    /\ profile.presence_status # zes

\* the three match conditions as the claims state them: same entry, the
\* connectivity event, and an identity equal to the entity id ignoring case
ClaimMatch(sh) ==
    /\ sh.entry = EntryId
    /\ sh.type = CONNECTIVITY_EVENT
    /\ sh.payload
    /\ sh.id # Missing
    /\ Id # None
    /\ Lower(sh.id) = Lower(Id)

\* the status string an event carries, None when it carries none
StatusOf(sh) == IF sh.payload /\ sh.status \in Statuses THEN sh.status ELSE None

\* C7: a push event that fails one of the three match conditions changes none
\* of zoom_event_state, is_on, available and profile and sends no notification.
C7_NonMatchingEventNoOp ==
    [][(last'.op = "event" /\ ~ClaimMatch(last'.ev)) =>
            /\ UNCHANGED <<zes, is_on, available, profile>>
            /\ last'.notes = 0]_vars

\* C7 witness: an event was received and ignored by an entity that shows a
\* status.
C7_Witness ==
    /\ last.op = "event"
    /\ ~last.set
    /\ ~last.raised
    /\ zes \in Statuses
    /\ Id # None

\* C8: a push event that meets the three match conditions sets
\* zoom_event_state to its status, recomputes is_on and sends one notification,
\* whether available is true or false.
C8_MatchingEventOverwrites ==
    [][(last'.op = "event" /\ ClaimMatch(last'.ev)) =>
            /\ zes' = StatusOf(last'.ev)
            /\ Truthy(is_on') <=> (zes' # None /\ zes' \in options')
            /\ available' = available
            /\ last'.notes = 1]_vars

\* C8 witness: an unavailable entity whose id is written in another case than
\* the event's took the status of a push event.
C8_Witness ==
    /\ last.op = "event"
    /\ last.set
    /\ ~available
    /\ Id = "abc"
    /\ zes = "In Meeting"
    /\ is_on = PyTrue

\* C9: async_added_to_hass with an unresolved id does not call the fetch
\* capability and ends by restoring: is_on takes the persisted state when
\* there is one, zoom_event_state and profile are left unset.
C9_UnresolvedBootstrapRestores ==
    /\ []((last.op = "restore" /\ bootPath = "unresolved" /\ polls = 0) =>
            (zes = None /\ profile = NoProfile))
    /\ [][/\ (last'.op = "added" /\ ~Truthy(Id)) =>
                /\ ~last'.fetch
                /\ bootPc' = "restoring"
                /\ bootPath' = "unresolved"
                /\ UNCHANGED ent
          /\ bootPath = "unresolved" => bootPc' # "fetching"
          /\ (last'.op = "restore" /\ bootPath = "unresolved") =>
                /\ ~last'.fetch
                /\ bootPc' = "done"
                /\ is_on' = (IF persisted # None THEN persisted ELSE is_on)
                /\ UNCHANGED <<zes, profile, available>>]_vars

\* C9 witness: the bootstrap of an entity without id has ended and is_on is the
\* persisted state.
C9_Witness ==
    /\ last.op = "restore"
    /\ bootPath = "unresolved"
    /\ bootPc = "done"
    /\ persisted = "off"
    /\ is_on = "off"
    /\ zes = None
    /\ profile = NoProfile

\* C10: a bootstrap whose fetch fails, with an authorization error or any
\* other, restores the persisted state and does not change available, which is
\* true at the end of the bootstrap unless a poll has failed.
C10_BootFailureKeepsAvailable ==
    /\ []((bootPath \in {"auth", "other"} /\ warnings = 0) => available)
    /\ [][/\ last'.op = "boot_fail" =>
                /\ bootPc' = "restoring"
                /\ bootPath' \in {"auth", "other"}
                /\ UNCHANGED ent
          /\ (last'.op = "restore" /\ bootPath \in {"auth", "other"}) =>
                /\ bootPc' = "done"
                /\ is_on' = (IF persisted # None THEN persisted ELSE is_on)
                /\ available' = available]_vars

\* C10 witness: the bootstrap fetch was refused, the state was restored and
\* the entity is available.
C10_Witness ==
    /\ last.op = "restore"
    /\ bootPath = "auth"
    /\ bootPc = "done"
    /\ is_on = "off"
    /\ available
    /\ polls = 0

\* the steps of the poll callback and of the event handler
FeedOps == {"poll_start", "poll_skip", "poll_ok", "poll_fail", "event"}

\* C11: an entity whose id was unresolved at bootstrap never issues a poll
\* fetch and never applies a push event afterwards; every poll tick and push
\* event leaves zoom_event_state, is_on, available and profile unchanged.
C11_UnresolvedForLife ==
    [][bootPath = "unresolved" =>
            /\ last'.op # "poll_start"
            /\ ~(last'.op = "event" /\ last'.set)
            /\ last'.op \in FeedOps => UNCHANGED ent]_vars

\* C11 as amended: as long as the id is unresolved no poll fetch is issued or
\* completed and no push event is applied; a poll tick or a push event then
\* changes nothing and sends no notification.
C11_UnresolvedWhileUnresolved ==
    [][~Truthy(Id) =>
            /\ last'.op \notin {"poll_start", "poll_ok", "poll_fail"}
            /\ last'.op \in FeedOps =>
                    /\ UNCHANGED ent
                    /\ ~last'.fetch
                    /\ ~last'.set
                    /\ last'.notes = 0]_vars

\* C11 witness: the timer fired on an entity that has ended its bootstrap by
\* a restore and still has no id.
C11_Witness ==
    /\ last.op = "poll_skip"
    /\ bootPath = "unresolved"
    /\ bootPc = "done"
    /\ ~Truthy(Id)
    /\ profile = NoProfile
    /\ zes = None

\* C12: no failure of the fetch is raised to the platform: a failed poll
\* fetch ends the callback normally with the entity unavailable, warned about
\* when it was available; a failed bootstrap fetch, of either kind, is logged
\* and followed by the restore.
C12_FetchFailuresCaught ==
    [][/\ last'.op = "poll_fail" =>
                /\ ~last'.raised
                /\ ~available'
                /\ available => (last'.log = "warning" /\ last'.notes = 1)
       /\ last'.op = "boot_fail" =>
                /\ ~last'.raised
                /\ bootPc' = "restoring"
                /\ bootPath' \in {"auth", "other"}
                /\ last'.log \in {"debug", "warning"}
       /\ (last'.op = "restore" /\ bootPath \in {"auth", "other"}) =>
                (~last'.raised /\ bootPc' = "done")]_vars

\* C12 witness: the bootstrap fetch failed with an error other than the
\* authorization one, the state was restored, and then a poll fetch failed.
C12_Witness ==
    /\ last.op = "poll_fail"
    /\ ~last.raised
    /\ last.log = "warning"
    /\ bootPath = "other"
    /\ bootPc = "done"
    /\ ~available

\* C13: while available is false, zoom_event_state and is_on do not change;
\* they change only in or after the poll that makes available true again; and
\* assumed_state is the negation of available.
C13_FrozenWhileUnavailable ==
    /\ [](assumed_state = ~available)
    /\ [][(~available /\ ~available') => UNCHANGED <<zes, is_on>>]_vars

\* C13 as amended: while available is false no poll changes zoom_event_state,
\* is_on or the stored profile; a matching push event, and the end of a
\* bootstrap that a failed poll overtook, still do; and assumed_state is the
\* negation of available.
C13_PollsFrozenWhileUnavailable ==
    /\ [](assumed_state = ~available)
    /\ [][(~available /\ ~available') =>
            \/ UNCHANGED <<zes, is_on, profile>>
            \/ last'.op \in {"event", "boot_ok", "restore"}]_vars

\* C13 witness: a push event changed the status of an entity that is
\* unavailable and whose state is assumed.
C13_Witness ==
    /\ last.op = "event"
    /\ last.set
    /\ assumed_state
    /\ last.arg = "Away"
    /\ zes = "Away"
    /\ profile = Profile("ABC", "In Meeting")
    /\ bootPath = "fetched"
    /\ polls = 1

\* C14: once the entity is removed, no poll, push event, option update or
\* coordinator refresh changes zoom_event_state, is_on, available or profile
\* or sends a notification.
C14_NothingAfterRemoval ==
    [][removed => (UNCHANGED ent /\ last'.notes = 0)]_vars

\* C15: available is false exactly when the most recently completed poll fetch
\* failed; it is true before any poll fetch has completed and after one that
\* succeeded.
C15_AvailableIsLastPollOutcome ==
    /\ available <=> lastPollOk
    /\ (polls = 0 => available)

\* C15 witness: a poll failed and the next one succeeded, after which a push
\* event arrived: the entity is available.
C15_Witness ==
    /\ polls = 2
    /\ inflight = 0
    /\ warnings = 1
    /\ recoveries = 1
    /\ last.op = "event"
    /\ available

\* C16: before async_added_to_hass has reached its end, no poll callback and
\* no push event changes zoom_event_state, is_on, available or profile.
C16_BootstrapBeforeFeeds ==
    [][(bootPc # "done" /\ last'.op \in FeedOps) => UNCHANGED ent]_vars

\* C17: while the timer keeps firing, if from some point on no poll fetch
\* fails, then available is eventually true and stays true.
C17_RecoveryIsLive ==
    ([]<><<LivePollFetchFail>>_vars) \/ (<>[]available)

\* C17 witness: a poll found the provider reachable again and made the entity
\* available.
C17_Witness ==
    /\ last.op = "poll_ok"
    /\ last.log = "info"
    /\ available
    /\ lastPollOk
    /\ inflight = 0

\* C19: a fetch that was in flight when a matching push event was applied does
\* not, on its completion, replace the pushed status with the fetched
\* presence_status.
C19_PushNotOverwrittenByOlderFetch ==
    [][(/\ last.op = "event"
        /\ last.set
        /\ inflight > 0
        /\ last'.op = "poll_ok") => zes' = zes]_vars

\* C20: _restore_state leaves zoom_event_state, available and profile
\* unchanged; it writes is_on only when a persisted state exists, and with no
\* persisted state and no status observed is_on is still False after it.
C20_RestoreFrame ==
    [][last'.op = "restore" =>
          /\ UNCHANGED <<zes, available, profile>>
          /\ persisted # None => is_on' = persisted
          /\ persisted = None => is_on' = is_on
          /\ (persisted = None /\ zes = None) => is_on' = PyFalse]_vars

\* C20 witness: a restore that found no persisted state has run before any
\* status was observed.
C20_Witness ==
    /\ last.op = "restore"
    /\ persisted = None
    /\ zes = None
    /\ is_on = PyFalse
    /\ bootPc = "done"

\* C20 witness of the other branch: a restore took the persisted state and
\* left the status unset.
C20_WitnessRestored ==
    /\ last.op = "restore"
    /\ persisted # None
    /\ is_on = persisted
    /\ zes = None

====
